---- MODULE Spec2Model ----
(***************************************************************************)
(* bitparser: the buffered reader (bitparser/utils.py) and the Struct /    *)
(* field codecs (bitparser/__init__.py).                                   *)
(*                                                                         *)
(* Byte strings are sequences of integers 0..255.  The underlying byte     *)
(* source `fd` is the pair (pending, future): `pending` holds the bytes    *)
(* the source can hand out now, `future` the bytes a live source will      *)
(* receive later.  fd.read(n) may return any non-empty prefix of `pending` *)
(* of at most n bytes (partial chunks) and returns the empty string only   *)
(* when `pending` is empty.                                                *)
(***************************************************************************)
EXTENDS Integers, Sequences, FiniteSets, TLC

\* ---------------------------------------------------------------- bounds
MaxLen == 3
MaxRead == 3
MaxPrior == 2
MaxStr == 2

\* ------------------------------------------------------ program constants
bufsize == 4096

\* byte values the source is filled from
ByteVals == {0, 1, 2}

\* byte values of the sources the schemas are decoded from
StructBytes == {0, 1}

\* byte values of the byte strings the codecs are applied to
CodecBytes == {0, 1, 2, 5}

VARIABLES schema, held, eof, pending, future, delivered, original, sawEmpty, last

vars == <<schema, held, eof, pending, future, delivered, original, sawEmpty, last>>

\* ---------------------------------------------------------------- helpers
Min(a, b) == IF a < b THEN a ELSE b

Take(s, n) == SubSeq(s, 1, Min(n, Len(s)))

Drop(s, n) == SubSeq(s, Min(n, Len(s)) + 1, Len(s))

SeqsUpTo(S, n) == UNION {[1..k -> S] : k \in 0..n}

\* ------------------------------------------------------- the byte source
\* fd.read(n) of a file-like object: the chunks it may return.
fd_read(p, n) ==
    IF p = <<>> THEN {<<>>}
    ELSE {SubSeq(p, 1, k) : k \in 1..Min(n, Len(p))}

\* ------------------------------------------------------- BufferedReader
\* A reader value: its own fields held/eof, the source it borrows, and
\* bookkeeping of the fd.read calls made through it (calls, empties).
BufferedReader(p) ==
    [held |-> <<>>, eof |-> FALSE, pending |-> p, calls |-> 0, empties |-> 0]

\* the while loop of read(): every state the loop can end in
RECURSIVE read_fill(_, _)
read_fill(rd, length) ==
    IF Len(rd.held) < length /\ ~rd.eof
    THEN UNION {
           IF chunk # <<>>
           THEN read_fill([rd EXCEPT !.held = @ \o chunk,
                                     !.pending = Drop(@, Len(chunk)),
                                     !.calls = @ + 1], length)
           ELSE read_fill([rd EXCEPT !.eof = TRUE,
                                     !.calls = @ + 1,
                                     !.empties = @ + 1], length)
           : chunk \in fd_read(rd.pending, bufsize)}
    ELSE {rd}

\* read(length): the outcomes [rd, result, err]
BufferedReader_read(rd, length) ==
    IF ~(length > 0)
    THEN {[rd |-> rd, result |-> <<>>, err |-> "AssertionError"]}
    ELSE {IF Len(f.held) > length
          THEN [rd |-> [f EXCEPT !.held = SubSeq(f.held, length + 1, Len(f.held))],
                result |-> SubSeq(f.held, 1, length), err |-> "none"]
          ELSE [rd |-> [f EXCEPT !.held = <<>>],
                result |-> f.held, err |-> "none"]
          : f \in read_fill(rd, length)}

pushback_appends(rd, bytes) ==
    [rd EXCEPT !.held = @ \o bytes]

\* pushback(bytes)
BufferedReader_pushback(rd, bytes) ==
    [rd EXCEPT !.held = bytes \o @]

peek_without_pushback(rd, length) == BufferedReader_read(rd, length)

\* peek(length)
BufferedReader_peek(rd, length) ==
    {IF o.err = "none"
     THEN [o EXCEPT !.rd = BufferedReader_pushback(o.rd, o.result)]
     ELSE o
     : o \in BufferedReader_read(rd, length)}

\* ------------------------------------------------------- Python values
\* Values are tagged by their Python type so that values of different
\* types are unequal instead of incomparable.
IntV(i) == [int |-> i]

TupV(t) == [tup |-> t]

StrV(s) == [str |-> s]

DictV(d) == [dict |-> d]

ContainerV(d) == [container |-> d]

NoneV == [none |-> TRUE]

\* the None key of a dict of flag names
None == "<None>"

EmptyDict == <<>>

\* d.get(k, default)
dict_get(d, k, default) == IF k \in DOMAIN d THEN d[k] ELSE default

\* d[k] = v
dict_set(d, k, v) == [x \in (DOMAIN d) \cup {k} |-> IF x = k THEN v ELSE d[x]]

Range(s) == {s[i] : i \in DOMAIN s}

\* ------------------------------------------------- the struct module
\* A format is a byte order ("<" little, ">" big) and `count` elements of
\* one unsigned integer code: "B" (1 byte) or "H" (2 bytes).
Fmt(order, count, code) == [order |-> order, count |-> count, code |-> code]

CodeSize(code) == IF code = "H" THEN 2 ELSE 1

calcsize(fmt) == fmt.count * CodeSize(fmt.code)

RECURSIVE Pow(_, _)
Pow(b, e) == IF e = 0 THEN 1 ELSE b * Pow(b, e - 1)

\* the integer held by the bytes bs in the given byte order
RECURSIVE DecodeInt(_, _)
DecodeInt(order, bs) ==
    IF bs = <<>> THEN 0
    ELSE IF order = "<"
         THEN Head(bs) + 256 * DecodeInt(order, Tail(bs))
         ELSE bs[Len(bs)] + 256 * DecodeInt(order, SubSeq(bs, 1, Len(bs) - 1))

\* the w bytes of the integer v in the given byte order
EncodeInt(order, w, v) ==
    [i \in 1..w |-> IF order = "<"
                    THEN (v \div Pow(256, i - 1)) % 256
                    ELSE (v \div Pow(256, w - i)) % 256]

RECURSIVE Concat(_)
Concat(ss) == IF ss = <<>> THEN <<>> ELSE Head(ss) \o Concat(Tail(ss))

\* struct.Struct(fmt).unpack(bytes)
struct_unpack(fmt, bytes) ==
    IF Len(bytes) # calcsize(fmt)
    THEN [err |-> "struct.error", data |-> <<>>]
    ELSE LET w == CodeSize(fmt.code)
         IN [err |-> "none",
             data |-> [i \in 1..fmt.count |->
                          DecodeInt(fmt.order, SubSeq(bytes, (i - 1) * w + 1, i * w))]]

\* struct.Struct(fmt).pack(*data), data a tuple of integers
struct_pack(fmt, data) ==
    LET w == CodeSize(fmt.code)
    IN IF \/ Len(data) # fmt.count
          \/ \E i \in DOMAIN data : data[i] < 0 \/ data[i] >= Pow(256, w)
       THEN [err |-> "struct.error", bytes |-> <<>>]
       ELSE [err |-> "none",
             bytes |-> Concat([i \in 1..fmt.count |-> EncodeInt(fmt.order, w, data[i])])]

\* ------------------------------------------------------------- fields
\* Struct(*fields)
Struct(fields) == [fields |-> fields]

\* Array(name, format): default (0,) * self.size()
Array(name, format) ==
    [kind |-> "Array", name |-> name, struct |-> format,
     default |-> TupV([i \in 1..calcsize(format) |-> 0])]

\* Field(name, format): default 0
Field(name, format) ==
    [kind |-> "Field", name |-> name, struct |-> format, default |-> IntV(0)]

\* Constant(name, format, value): default value
Constant(name, format, value) ==
    [kind |-> "Constant", name |-> name, struct |-> format,
     default |-> IntV(value), value |-> value]

\* CString(name, delim): format '', default ''
CString(name, delim) ==
    [kind |-> "CString", name |-> name, struct |-> Fmt("@", 0, "B"),
     default |-> StrV(<<>>), delim |-> delim]

\* BitField(name, format, fields): default dict(zip(fields, [False] * len(fields)))
BitField(name, format, fields) ==
    [kind |-> "BitField", name |-> name, struct |-> format,
     default |-> DictV([k \in Range(fields) |-> FALSE]), fields |-> fields]

\* Alias(name, struct): default None
Alias(name, struct) ==
    [kind |-> "Alias", name |-> name, struct |-> struct, default |-> NoneV]

\* f.size(), and Struct.size(): the sum of the fields' sizes
RECURSIVE Struct_size(_)
field_size(f) ==
    IF f.kind = "CString" THEN 0
    ELSE IF f.kind = "Alias" THEN Struct_size(f.struct)
    ELSE calcsize(f.struct)

RECURSIVE SumSizes(_)
SumSizes(fs) == IF fs = <<>> THEN 0 ELSE field_size(Head(fs)) + SumSizes(Tail(fs))

Struct_size(s) == SumSizes(s.fields)

\* ------------------------------------------------------------- decoding
\* An outcome of a decode: the reader afterwards, the value, the exception
\* raised ("none" when it returned) and what the exception carries.
NoInfo == [at |-> "", expected |-> -1, actual |-> -1]

Ok(rd, val) == [rd |-> rd, val |-> val, err |-> "none", info |-> NoInfo]

Fail(rd, err, at) ==
    [rd |-> rd, val |-> NoneV, err |-> err, info |-> [NoInfo EXCEPT !.at = at]]

\* Array.read(fd, size): the outcomes [rd, result, err] of fd.read(size),
\* EndOfData when nothing was read
Array_read(rd, size) ==
    {IF o.err = "none" /\ o.result = <<>>
     THEN [o EXCEPT !.err = "EndOfData"]
     ELSE o
     : o \in BufferedReader_read(rd, size)}

\* Array.unpack(fd): the tuple of the elements
Array_unpack(f, rd) ==
    {IF o.err # "none" THEN Fail(o.rd, o.err, f.name)
     ELSE LET u == struct_unpack(f.struct, o.result)
          IN IF u.err # "none" THEN Fail(o.rd, u.err, f.name)
             ELSE Ok(o.rd, TupV(u.data))
     : o \in Array_read(rd, field_size(f))}

\* Field.unpack(fd): element [0] of Array.unpack
Field_unpack(f, rd) ==
    {IF o.err # "none" THEN o ELSE Ok(o.rd, IntV(o.val.tup[1]))
     : o \in Array_unpack(f, rd)}

Constant_unpack_unchecked(f, rd) == Field_unpack(f, rd)

\* Constant.unpack(fd): ValueError unless the value read is self.value
Constant_unpack(f, rd) ==
    {IF o.err # "none" THEN o
     ELSE IF o.val.int # f.value
          THEN [rd |-> o.rd, val |-> NoneV, err |-> "ValueError",
                info |-> [at |-> f.name, expected |-> f.value, actual |-> o.val.int]]
          ELSE o
     : o \in Field_unpack(f, rd)}

RECURSIVE CString_loop_keeps_delim(_, _, _)
CString_loop_keeps_delim(f, rd, bytes) ==
    UNION {IF o.err # "none" THEN {Fail(o.rd, o.err, f.name)}
           ELSE IF o.result = f.delim
                THEN {Ok(BufferedReader_pushback(o.rd, o.result), StrV(bytes))}
                ELSE CString_loop_keeps_delim(f, o.rd, bytes \o o.result)
           : o \in Array_read(rd, 1)}

\* CString.unpack(fd): the loop reading one byte at a time up to the delimiter
RECURSIVE CString_loop(_, _, _)
CString_loop(f, rd, bytes) ==
    UNION {IF o.err # "none" THEN {Fail(o.rd, o.err, f.name)}
           ELSE IF o.result = f.delim THEN {Ok(o.rd, StrV(bytes))}
           ELSE CString_loop(f, o.rd, bytes \o o.result)
           : o \in Array_read(rd, 1)}

CString_unpack(f, rd) == CString_loop(f, rd, <<>>)

\* the dict of the named flags of the integer data
BitField_values(f, data) ==
    [k \in {f.fields[i] : i \in {j \in DOMAIN f.fields : f.fields[j] # None}} |->
        LET i == CHOOSE j \in DOMAIN f.fields :
                    /\ f.fields[j] = k
                    /\ \A m \in DOMAIN f.fields : f.fields[m] = k => m <= j
        IN (data \div Pow(2, i - 1)) % 2 = 1]

\* BitField.unpack(fd)
BitField_unpack(f, rd) ==
    {IF o.err # "none" THEN o
     ELSE Ok(o.rd, DictV(BitField_values(f, o.val.tup[1])))
     : o \in Array_unpack(f, rd)}

RECURSIVE Struct_unpack(_, _)
\* f.unpack(fd, ctx=ctx)
field_unpack(f, rd) ==
    CASE f.kind = "Array" -> Array_unpack(f, rd)
      [] f.kind = "Field" -> Field_unpack(f, rd)
      [] f.kind = "Constant" -> Constant_unpack(f, rd)
      [] f.kind = "CString" -> CString_unpack(f, rd)
      [] f.kind = "BitField" -> BitField_unpack(f, rd)
      [] f.kind = "Alias" -> Struct_unpack(f.struct, rd)

\* the for loop of iterunpack, with the values[name] = val of unpack
RECURSIVE unpack_fields(_, _, _)
unpack_fields(fs, rd, values) ==
    IF fs = <<>> THEN {Ok(rd, ContainerV(values))}
    ELSE UNION {IF o.err # "none" THEN {o}
                ELSE unpack_fields(Tail(fs), o.rd, dict_set(values, Head(fs).name, o.val))
                : o \in field_unpack(Head(fs), rd)}

iterunpack_without_pushback(s, rd) ==
    UNION {IF o.err # "none" THEN {Fail(o.rd, o.err, "lookahead")}
           ELSE IF Len(o.result) < Struct_size(s)
                THEN {Fail(o.rd, "EndOfData", "lookahead")}
                ELSE unpack_fields(s.fields, BufferedReader_pushback(o.rd, o.result), EmptyDict)
           : o \in BufferedReader_read(rd, Struct_size(s))}

\* Struct.iterunpack(fd, ctx): the look-ahead of size() bytes, then the fields
Struct_iterunpack(s, rd) ==
    UNION {IF o.err # "none" THEN {Fail(o.rd, o.err, "lookahead")}
           ELSE LET rd2 == BufferedReader_pushback(o.rd, o.result)
                IN IF Len(o.result) < Struct_size(s)
                   THEN {Fail(rd2, "EndOfData", "lookahead")}
                   ELSE unpack_fields(s.fields, rd2, EmptyDict)
           : o \in BufferedReader_read(rd, Struct_size(s))}

\* Struct.unpack(fd), fd a BufferedReader
Struct_unpack(s, rd) == Struct_iterunpack(s, rd)

\* ------------------------------------------------------------- encoding
PackOk(bytes) == [err |-> "none", bytes |-> bytes]

PackFail(err) == [err |-> err, bytes |-> <<>>]

\* Array.pack(data): struct.pack(*data)
Array_pack(f, data) ==
    IF "tup" \notin DOMAIN data THEN PackFail("TypeError")
    ELSE struct_pack(f.struct, data.tup)

\* Field.pack(data): Array.pack((data,))
Field_pack(f, data) ==
    IF "int" \notin DOMAIN data THEN PackFail("struct.error")
    ELSE Array_pack(f, TupV(<<data.int>>))

\* Constant.pack(data): struct.pack(self.value)
Constant_pack(f, data) == struct_pack(f.struct, <<f.value>>)

\* CString.pack(data): '%s%s' % (data, self.delim)
CString_pack(f, data) ==
    IF "str" \notin DOMAIN data THEN PackFail("unmodelled")
    ELSE PackOk(data.str \o f.delim)

RECURSIVE BitField_bits_shifted(_, _, _)
BitField_bits_shifted(f, values, i) ==
    IF i > Len(f.fields) THEN 0
    ELSE (IF f.fields[i] # None /\ values[f.fields[i]] THEN Pow(2, i) ELSE 0)
         + BitField_bits_shifted(f, values, i + 1)

\* the loop of BitField.pack: the bits of the flags that are set
RECURSIVE BitField_bits(_, _, _)
BitField_bits(f, values, i) ==
    IF i > Len(f.fields) THEN 0
    ELSE (IF f.fields[i] # None /\ values[f.fields[i]] THEN Pow(2, i - 1) ELSE 0)
         + BitField_bits(f, values, i + 1)

\* BitField.pack(values): KeyError when a named flag is missing
BitField_pack(f, values) ==
    IF "dict" \notin DOMAIN values THEN PackFail("TypeError")
    ELSE IF \E i \in DOMAIN f.fields :
                f.fields[i] # None /\ f.fields[i] \notin DOMAIN values.dict
         THEN PackFail("KeyError")
         ELSE Array_pack(f, TupV(<<BitField_bits(f, values.dict, 1)>>))

RECURSIVE Struct_pack(_, _)
\* f.pack(val)
field_pack(f, val) ==
    CASE f.kind = "Array" -> Array_pack(f, val)
      [] f.kind = "Field" -> Field_pack(f, val)
      [] f.kind = "Constant" -> Constant_pack(f, val)
      [] f.kind = "CString" -> CString_pack(f, val)
      [] f.kind = "BitField" -> BitField_pack(f, val)
      [] f.kind = "Alias" -> Struct_pack(f.struct, val)

\* the for loop of Struct.pack over the dict d
RECURSIVE pack_fields(_, _)
pack_fields(fs, d) ==
    IF fs = <<>> THEN PackOk(<<>>)
    ELSE LET p == field_pack(Head(fs), dict_get(d, Head(fs).name, Head(fs).default))
         IN IF p.err # "none" THEN p
            ELSE LET r == pack_fields(Tail(fs), d)
                 IN IF r.err # "none" THEN r ELSE PackOk(p.bytes \o r.bytes)

\* Struct.pack(values): values.get fails on a value that is no dict
Struct_pack(s, values) ==
    IF "container" \notin DOMAIN values
    THEN IF s.fields = <<>> THEN PackOk(<<>>) ELSE PackFail("AttributeError")
    ELSE pack_fields(s.fields, values.container)

\* Struct.new(): a Container of the fields' defaults
RECURSIVE new_fields(_, _)
new_fields(fs, data) ==
    IF fs = <<>> THEN data
    ELSE new_fields(Tail(fs), dict_set(data, Head(fs).name, Head(fs).default))

Struct_new(s) == ContainerV(new_fields(s.fields, EmptyDict))

\* ------------------------------------------------------------ the state
\* the reader object of the state, as a reader value
Reader == [held |-> held, eof |-> eof, pending |-> pending, calls |-> 0, empties |-> 0]

\* `last` records the most recent call: its name, its arguments (n, arg),
\* what it returned (result, val) or raised (err, info), the number of
\* fd.read calls it made, and what the value it worked on came from.
NoOp ==
    [op |-> "none", n |-> 0, arg |-> <<>>, result |-> <<>>, val |-> NoneV,
     err |-> "none", info |-> NoInfo, calls |-> 0, from |-> ""]

Did(op, n, rd, result, err) ==
    [NoOp EXCEPT !.op = op, !.n = n, !.result = result, !.err = err,
                 !.calls = rd.calls]

\* the bytes of the stream that a call ending with reader rd has consumed
Consumed(rd) ==
    Take(held \o pending, (Len(held) + Len(pending)) - (Len(rd.held) + Len(rd.pending)))

\* the sources: every byte string up to MaxLen, any prefix of it already
\* at the source and the rest still to arrive
InitSource(S) ==
    \E s \in SeqsUpTo(S, MaxLen) : \E k \in 0..Len(s) :
       /\ original = s
       /\ pending = Take(s, k)
       /\ future = Drop(s, k)

Init ==
    /\ schema = Struct(<<>>)
    /\ held = <<>>
    /\ eof = FALSE
    /\ InitSource(ByteVals)
    /\ delivered = <<>>
    /\ sawEmpty = FALSE
    /\ last = NoOp

\* reader.read(n)
Read(n) ==
    \E o \in BufferedReader_read(Reader, n) :
       /\ held' = o.rd.held
       /\ eof' = o.rd.eof
       /\ pending' = o.rd.pending
       /\ delivered' = delivered \o o.result
       /\ sawEmpty' = (sawEmpty \/ o.rd.empties > 0)
       /\ last' = [Did("read", n, o.rd, o.result, o.err)
                     EXCEPT !.from = IF last.op = "peek" /\ last.n = n THEN "peek" ELSE ""]
       /\ UNCHANGED <<schema, future, original>>

\* reader.peek(n)
Peek(n) ==
    \E o \in BufferedReader_peek(Reader, n) :
       /\ held' = o.rd.held
       /\ eof' = o.rd.eof
       /\ pending' = o.rd.pending
       /\ sawEmpty' = (sawEmpty \/ o.rd.empties > 0)
       /\ last' = Did("peek", n, o.rd, o.result, o.err)
       /\ UNCHANGED <<schema, future, original, delivered>>

\* reader.pushback(bytes), bytes being what the preceding read returned
Pushback ==
    /\ last.op = "read"
    /\ LET rd == BufferedReader_pushback(Reader, last.result)
       IN /\ held' = rd.held
          /\ delivered' = SubSeq(delivered, 1, Len(delivered) - Len(last.result))
          /\ last' = Did("pushback", Len(last.result), rd, last.result, "none")
    /\ UNCHANGED <<schema, eof, pending, future, original, sawEmpty>>

\* the preceding call was a Struct.unpack that failed its look-ahead
UnderRead ==
    /\ last.op = "unpack"
    /\ last.err = "EndOfData"
    /\ last.info.at = "lookahead"

\* a live source receives its next k bytes
Arrive ==
    /\ future # <<>>
    /\ \E k \in 1..Len(future) :
          /\ pending' = pending \o Take(future, k)
          /\ future' = Drop(future, k)
    /\ last' = [NoOp EXCEPT !.op = "arrive",
                            !.from = IF UnderRead THEN "underread"
                                     ELSE IF last.op = "arrive" THEN last.from
                                     ELSE ""]
    /\ UNCHANGED <<schema, held, eof, delivered, original, sawEmpty>>

Next ==
    \/ \E n \in 1..MaxRead : Read(n)
    \/ \E n \in 1..MaxRead : Peek(n)
    \/ Pushback
    \/ Arrive

Spec == Init /\ [][Next]_vars

\* C4: peek(n) pulls from the source and returns what a single read(n) from
\* the same state can pull and return, and a read(n) that immediately
\* follows a peek(n) returns the same bytes without any read of the source.
C4_PeekReadInverse ==
    [][ /\ last'.op = "peek" =>
             \E o \in BufferedReader_read(Reader, last'.n) :
                /\ o.result = last'.result
                /\ o.rd.pending = pending'
                /\ o.rd.eof = eof'
                /\ o.rd.calls = last'.calls
        /\ (last.op = "peek" /\ last'.op = "read" /\ last'.n = last.n) =>
             /\ last'.result = last.result
             /\ last'.calls = 0
             /\ pending' = pending ]_vars

\* a read(n) right after a peek(n) that had to pull a partial chunk
C4_Witness ==
    /\ last.op = "read"
    /\ last.from = "peek"
    /\ last.result # <<>>
    /\ held # <<>>
    /\ pending # <<>>

\* C10: the bytes delivered (net of pushbacks), the pending buffer and the
\* source's unread remainder are the original source bytes in order, and a
\* read or peek returns fewer bytes than asked only after an empty source read.
C10_ByteConservation ==
    /\ delivered \o held \o pending \o future = original
    /\ (last.op \in {"read", "peek"} /\ Len(last.result) < last.n) => sawEmpty

\* bytes were delivered, pushed back in part, and the rest is spread over
\* the buffer and the source
C10_Witness ==
    /\ last.op = "pushback"
    /\ delivered # <<>>
    /\ held # <<>>
    /\ pending # <<>>

\* ------------------------------------------- decoding against a reader
U8 == Fmt("<", 1, "B")

LE16 == Fmt("<", 1, "H")

BE16 == Fmt(">", 1, "H")

NUL == <<0>>

\* the schemas decoded
DecodeSchemas ==
    { Struct(<<Field("a", LE16)>>),
      Struct(<<Field("a", U8), Constant("magic", U8, 1), Field("b", U8)>>),
      Struct(<<BitField("f", U8, <<"A", None, "C">>),
               Alias("sub", Struct(<<Array("p", Fmt(">", 2, "B"))>>))>>),
      Struct(<<Field("a", U8), CString("s", NUL)>>),
      Struct(<<CString("s", NUL)>>),
      Struct(<<>>),
      Struct(<<Field("a", U8), Alias("sub", Struct(<<>>))>>) }

Delims == {NUL, <<2>>}

InitStruct ==
    /\ schema \in DecodeSchemas
    /\ held = <<>>
    /\ eof = FALSE
    /\ InitSource(StructBytes)
    /\ delivered = <<>>
    /\ sawEmpty = FALSE
    /\ last = NoOp

\* schema.unpack(reader)
Unpack ==
    \E o \in Struct_unpack(schema, Reader) :
       /\ held' = o.rd.held
       /\ eof' = o.rd.eof
       /\ pending' = o.rd.pending
       /\ delivered' = delivered \o Consumed(o.rd)
       /\ sawEmpty' = (sawEmpty \/ o.rd.empties > 0)
       /\ last' = [Did("unpack", Struct_size(schema), o.rd, <<>>, o.err)
                     EXCEPT !.val = o.val, !.info = o.info, !.from = last.from]
       /\ UNCHANGED <<schema, future, original>>

\* schema.unpack(fd): fd is wrapped in a BufferedReader of its own, which
\* is dropped with the call when it raises
UnpackPlain ==
    \E o \in Struct_unpack(schema, BufferedReader(pending)) :
       /\ pending' = o.rd.pending
       /\ sawEmpty' = (sawEmpty \/ o.rd.empties > 0)
       /\ last' = [Did("unpack_plain", Struct_size(schema), o.rd, o.rd.held, o.err)
                     EXCEPT !.val = o.val, !.info = o.info]
       /\ UNCHANGED <<schema, held, eof, future, original, delivered>>

\* CString('s', delim).unpack(reader)
CStringUnpack(delim) ==
    \E o \in CString_unpack(CString("s", delim), Reader) :
       /\ held' = o.rd.held
       /\ eof' = o.rd.eof
       /\ pending' = o.rd.pending
       /\ delivered' = delivered \o Consumed(o.rd)
       /\ sawEmpty' = (sawEmpty \/ o.rd.empties > 0)
       /\ last' = [Did("cstring_unpack", 0, o.rd,
                       IF o.err = "none" THEN o.val.str ELSE <<>>, o.err)
                     EXCEPT !.arg = delim, !.val = o.val, !.info = o.info,
                            !.from = IF last.op = "cstring_unpack" /\ last.err = "none"
                                     THEN "cstring_unpack" ELSE ""]
       /\ UNCHANGED <<schema, future, original>>

\* CString('s', delim).pack(data)
CStringPack(delim, data) ==
    LET p == CString_pack(CString("s", delim), StrV(data))
    IN /\ last' = [Did("cstring_pack", 0, Reader, p.bytes, p.err)
                     EXCEPT !.arg = data, !.val = StrV(delim)]
       /\ UNCHANGED <<schema, held, eof, pending, future, delivered, original, sawEmpty>>

\* the Constant fields of the schema
Constants == {f \in Range(schema.fields) : f.kind = "Constant"}

\* c.pack(x) of a Constant field c of the schema
ConstantPack(x) ==
    \E c \in Constants :
       LET p == Constant_pack(c, IntV(x))
       IN /\ last' = [Did("constant_pack", 0, Reader, p.bytes, p.err)
                        EXCEPT !.arg = <<x>>, !.val = IntV(c.value)]
          /\ UNCHANGED <<schema, held, eof, pending, future, delivered, original, sawEmpty>>

NextStruct ==
    \/ \E n \in 1..MaxPrior : Read(n)
    \/ \E n \in 1..MaxPrior : Peek(n)
    \/ Pushback
    \/ Arrive
    \/ Unpack
    \/ UnpackPlain
    \/ \E x \in ByteVals : ConstantPack(x)

SpecStruct == InitStruct /\ [][NextStruct]_vars

\* no field of s, nested ones included, is a CString
RECURSIVE FixedWidth(_)
FixedWidth(s) ==
    \A i \in DOMAIN s.fields :
       /\ s.fields[i].kind # "CString"
       /\ s.fields[i].kind = "Alias" => FixedWidth(s.fields[i].struct)

\* what reader.peek(schema.size()) returns in this state
SchemaPeek == {o.result : o \in BufferedReader_peek(Reader, Struct_size(schema))}

\* the bytes the reader can still deliver
Stream == IF eof THEN held ELSE held \o pending

\* C1: unpack on a reader with fewer remaining bytes than the size of a
\* schema of fixed-width fields raises EndOfData, returns no record, and
\* leaves what peek(size) returns, and what the reader has delivered, as
\* they were.
C1_UnderReadSafety ==
    [][ ( /\ last'.op = "unpack"
          /\ FixedWidth(schema)
          /\ Struct_size(schema) >= 1
          /\ Len(held) + Len(pending) < Struct_size(schema) )
        => ( /\ last'.err = "EndOfData"
             /\ last'.val = NoneV
             /\ SchemaPeek' = SchemaPeek
             /\ delivered' = delivered ) ]_vars

\* a failed unpack on a reader that earlier reads had advanced and that
\* still held some bytes
C1_Witness ==
    /\ last.op = "unpack"
    /\ last.err = "EndOfData"
    /\ FixedWidth(schema)
    /\ delivered # <<>>
    /\ held # <<>>

\* C2: an unpack of a plain source that fails the look-ahead leaves the
\* source with every byte it had.
C2_PlainSourceUntouched ==
    [][ ( /\ last'.op = "unpack_plain"
          /\ last'.err = "EndOfData"
          /\ last'.info.at = "lookahead" )
        => pending' = pending ]_vars

\* C3: when an unpack failed its look-ahead and the source then received
\* bytes that make up the size of the schema, the next unpack on the same
\* reader succeeds and consumes the first size() bytes of buffer and source.
C3_RetryAfterUnderRead ==
    [][ ( /\ last.op = "arrive"
          /\ last.from = "underread"
          /\ last'.op = "unpack"
          /\ FixedWidth(schema)
          /\ Constants = {}
          /\ Len(held) + Len(pending) >= Struct_size(schema) )
        => ( /\ last'.err = "none"
             /\ delivered' = delivered \o Take(held \o pending, Struct_size(schema)) ) ]_vars

\* the first Constant field of the schema, when only fixed-width fields of
\* other kinds come before it: its index, or 0
ConstantAt ==
    IF \E i \in DOMAIN schema.fields :
          /\ schema.fields[i].kind = "Constant"
          /\ \A j \in 1..(i - 1) : schema.fields[j].kind \in {"Array", "Field", "BitField"}
    THEN CHOOSE i \in DOMAIN schema.fields :
          /\ schema.fields[i].kind = "Constant"
          /\ \A j \in 1..(i - 1) : schema.fields[j].kind \in {"Array", "Field", "BitField"}
    ELSE 0

C9_ReadPrecondition ==
    last.op \in {"unpack", "unpack_plain"} => last.err # "AssertionError"

\* ------------------------------------------------- delimited strings
NextCString ==
    \/ \E n \in 1..MaxPrior : Read(n)
    \/ Pushback
    \/ Arrive
    \/ \E d \in Delims : CStringUnpack(d)
    \/ \E d \in Delims : \E data \in SeqsUpTo(ByteVals \ Range(d), MaxStr) : CStringPack(d, data)

SpecCString == Init /\ [][NextCString]_vars

\* the index of the first d in s, or 0
FirstIndex(s, d) ==
    IF \E i \in DOMAIN s : s[i] = d
    THEN CHOOSE i \in DOMAIN s : s[i] = d /\ \A j \in 1..(i - 1) : s[j] # d
    ELSE 0

\* C7: CString.unpack returns the bytes before the first delimiter of the
\* stream and leaves exactly the bytes after that delimiter to the next
\* decode; it raises EndOfData when the stream has no delimiter; and
\* CString.pack(s) is s followed by the delimiter.
C7_DelimitedStringFraming ==
    [][ /\ last'.op = "cstring_unpack"
           => LET d == last'.arg[1]
                  i == FirstIndex(Stream, d)
              IN IF i # 0
                 THEN /\ last'.err = "none"
                      /\ last'.result = SubSeq(Stream, 1, i - 1)
                      /\ Stream' = SubSeq(Stream, i + 1, Len(Stream))
                      /\ delivered' = delivered \o SubSeq(Stream, 1, i)
                 ELSE last'.err = "EndOfData"
        /\ last'.op = "cstring_pack"
           => /\ last'.err = "none"
              /\ last'.result = last'.arg \o last'.val.str ]_vars

\* the second of two successive decodes returned a non-empty string
C7_Witness ==
    /\ last.op = "cstring_unpack"
    /\ last.from = "cstring_unpack"
    /\ last.err = "none"
    /\ last.result # <<>>

\* ------------------------------------------------------ encode / decode
\* the schemas encoded and decoded
CodecSchemas ==
    { Struct(<<Field("a", LE16), Field("b", BE16)>>),
      Struct(<<Array("p", Fmt(">", 2, "B")), Field("a", U8)>>),
      Struct(<<BitField("f", U8, <<"A", None, "C">>), Field("a", U8)>>),
      Struct(<<Field("a", U8), BitField("f", U8, <<"A", "B">>)>>),
      Struct(<<Alias("sub", Struct(<<Field("x", BE16)>>)), Field("a", U8)>>),
      Struct(<<Array("p", Fmt("<", 2, "H"))>>),
      Struct(<<Constant("magic", U8, 1), CString("s", NUL)>>) }

\* a schema and a byte string of its size() at the source
InitCodec ==
    /\ schema \in CodecSchemas
    /\ held = <<>>
    /\ eof = FALSE
    /\ original \in [1..Struct_size(schema) -> CodecBytes]
    /\ pending = original
    /\ future = <<>>
    /\ delivered = <<>>
    /\ sawEmpty = FALSE
    /\ last = NoOp

\* schema.unpack(fd) of the byte string at the source
Decode ==
    /\ last.op = "none"
    /\ \E o \in Struct_unpack(schema, BufferedReader(pending)) :
          /\ pending' = o.rd.pending
          /\ sawEmpty' = (sawEmpty \/ o.rd.empties > 0)
          /\ last' = [Did("unpack", Struct_size(schema), o.rd, o.rd.held, o.err)
                        EXCEPT !.val = o.val, !.info = o.info, !.from = "source"]
    /\ UNCHANGED <<schema, held, eof, future, original, delivered>>

\* schema.new()
New ==
    /\ last' = [NoOp EXCEPT !.op = "new", !.val = Struct_new(schema), !.from = "new"]
    /\ UNCHANGED <<schema, held, eof, pending, future, delivered, original, sawEmpty>>

\* schema.pack(values), values the record just decoded or made by new()
Pack ==
    /\ last.op \in {"unpack", "new"}
    /\ last.err = "none"
    /\ LET p == Struct_pack(schema, last.val)
       IN last' = [NoOp EXCEPT !.op = "pack", !.result = p.bytes, !.err = p.err,
                               !.from = last.from]
    /\ UNCHANGED <<schema, held, eof, pending, future, delivered, original, sawEmpty>>

\* schema.pack(Container(schema)): the empty record
PackEmpty ==
    /\ LET p == Struct_pack(schema, ContainerV(EmptyDict))
       IN last' = [NoOp EXCEPT !.op = "pack", !.result = p.bytes, !.err = p.err,
                               !.from = "empty"]
    /\ UNCHANGED <<schema, held, eof, pending, future, delivered, original, sawEmpty>>

\* schema.unpack(StringIO(bytes)), bytes being what pack just returned
UnpackPacked ==
    /\ last.op = "pack"
    /\ last.err = "none"
    /\ \E o \in Struct_unpack(schema, BufferedReader(last.result)) :
          last' = [Did("unpack", Struct_size(schema), o.rd, o.rd.held, o.err)
                     EXCEPT !.val = o.val, !.info = o.info,
                            !.from = IF last.from = "new" THEN "packed new" ELSE "packed"]
    /\ UNCHANGED <<schema, held, eof, pending, future, delivered, original, sawEmpty>>

NextCodec ==
    \/ Decode
    \/ New
    \/ Pack
    \/ PackEmpty
    \/ UnpackPacked

SpecCodec == InitCodec /\ [][NextCodec]_vars

\* every field of s, nested ones included, is a Field, an Array, a BitField
\* or an Alias
RECURSIVE RoundTripSchema(_)
RoundTripSchema(s) ==
    \A i \in DOMAIN s.fields :
       /\ s.fields[i].kind \in {"Field", "Array", "BitField", "Alias"}
       /\ s.fields[i].kind = "Alias" => RoundTripSchema(s.fields[i].struct)

\* the fields of s, those of nested schemas in place of their Alias
RECURSIVE Flat(_)
Flat(fs) ==
    IF fs = <<>> THEN <<>>
    ELSE (IF Head(fs).kind = "Alias" THEN Flat(Head(fs).struct.fields) ELSE <<Head(fs)>>)
         \o Flat(Tail(fs))

\* in the byte string b, laid out as the fields fs, every bit of a BitField's
\* integer that has no flag name (a None position, or a position past the
\* names) is 0
ReservedClear(fs, b) ==
    \A i \in DOMAIN fs :
       fs[i].kind = "BitField" =>
          LET off == SumSizes(SubSeq(fs, 1, i - 1))
              v == DecodeInt(fs[i].struct.order, SubSeq(b, off + 1, off + field_size(fs[i])))
          IN \A k \in 0..(8 * field_size(fs[i]) - 1) :
                (v \div Pow(2, k)) % 2 = 1 =>
                   (k + 1 \in DOMAIN fs[i].fields /\ fs[i].fields[k + 1] # None)

C6_DefaultRoundTrip ==
    /\ last.op = "new"
          => DOMAIN last.val.container = {schema.fields[i].name : i \in DOMAIN schema.fields}
    /\ (last.op = "pack" /\ last.from = "new")
          => /\ last.err = "none"
             /\ last.result = Struct_pack(schema, ContainerV(EmptyDict)).bytes
    /\ (last.op = "unpack" /\ last.from = "packed new")
          => /\ last.err = "none"
             /\ last.val = Struct_new(schema)

====
